---- MODULE Spec2Model ----
(***************************************************************************)
(* Model of astromatic_wrapper/api.py: the Astromatic wrapper class        *)
(* (build_cmd, _run_cmd, run, run_frames) and the per-tool convenience     *)
(* functions (run_sex, run_scamp, run_psfex).                              *)
(*                                                                         *)
(* Python strings are TLA+ strings; the string methods the code uses       *)
(* (lower, replace, the `in` substring test, os.path.join) are computed    *)
(* character by character.  A Python dict is an ordered sequence of        *)
(* key/value entries (insertion order is what build_cmd iterates over).    *)
(* Keyword-argument dicts and result dicts are functions whose DOMAIN is   *)
(* the set of keys present.                                                *)
(***************************************************************************)
EXTENDS Integers, Sequences, FiniteSets, TLC

VARIABLES
    fs,                 \* filesystem: path -> file contents (XML reports, parameter files)
    init_config,        \* the dict object bound to the default `config={}` of Astromatic.__init__
    scamp_api_kwargs,   \* the dict object bound to the default `api_kwargs={}` of run_scamp
    psfex_api_kwargs,   \* the dict object bound to the default `api_kwargs={}` of run_psfex
    sex_api_kwargs,     \* the dict object bound to the default `api_kwargs={}` of run_sex
    call,               \* the last call made by the caller: operation and arguments
    out,                \* what that call did: exception or returned record, commands run, file accesses
    ncalls              \* number of calls made so far

vars == <<fs, init_config, scamp_api_kwargs, psfex_api_kwargs, sex_api_kwargs, call, out, ncalls>>

-----------------------------------------------------------------------------
(* Bounds *)

MaxCalls == 2
MaxFrames == 2
MaxOutputLines == 2

-----------------------------------------------------------------------------
(* Python values *)

None == [t |-> "none", s |-> "", b |-> FALSE]
Str(s) == [t |-> "str", s |-> s, b |-> FALSE]
Bool(b) == [t |-> "bool", s |-> "", b |-> b]
\* a number; s is its str() form
Num(n) == [t |-> "int", s |-> ToString(n), b |-> FALSE]

\* Python truth value of an object (used by `and` in run_frames)
Truthy(v) ==
    CASE v.t = "bool" -> v.b
      [] v.t = "str" -> v.s /= ""
      [] v.t = "int" -> v.s /= "0"
      [] OTHER -> FALSE

EmptyDict == << >>
EmptyKwargs == [k \in {} |-> None]

\* `key in d`
HasKey(d, k) == \E i \in 1..Len(d) : d[i].k = k

\* d[key]
GetKey(d, k) == d[CHOOSE i \in 1..Len(d) : d[i].k = k].v

\* d[key] = value: an existing key keeps its position, a new key is appended
SetKey(d, k, v) ==
    IF HasKey(d, k)
    THEN [i \in 1..Len(d) |-> IF d[i].k = k THEN [k |-> k, v |-> v] ELSE d[i]]
    ELSE Append(d, [k |-> k, v |-> v])

-----------------------------------------------------------------------------
(* Python string methods *)

UpperChars == "ABCDEFGHIJKLMNOPQRSTUVWXYZ"
LowerChars == "abcdefghijklmnopqrstuvwxyz"

\* the lower-case letter of every upper-case letter
LowerOf ==
    [c \in {SubSeq(UpperChars, i, i) : i \in 1..26} |->
        SubSeq(LowerChars, CHOOSE i \in 1..26 : SubSeq(UpperChars, i, i) = c,
                           CHOOSE i \in 1..26 : SubSeq(UpperChars, i, i) = c)]

LowerChar(c) == IF c \in DOMAIN LowerOf THEN LowerOf[c] ELSE c

RECURSIVE StrLower(_)
\* str.lower()
StrLower(s) == IF s = "" THEN "" ELSE LowerChar(SubSeq(s, 1, 1)) \o StrLower(SubSeq(s, 2, Len(s)))

\* `sub in s`
Contains(s, sub) == \E i \in 1..(Len(s) - Len(sub) + 1) : SubSeq(s, i, i + Len(sub) - 1) = sub

RECURSIVE StrReplace(_, _, _)
\* s.replace(old, new) for non-empty old: leftmost non-overlapping occurrences
StrReplace(s, old, new) ==
    LET hits == {i \in 1..(Len(s) - Len(old) + 1) : SubSeq(s, i, i + Len(old) - 1) = old}
    IN  IF hits = {} THEN s
        ELSE LET first == CHOOSE i \in hits : \A j \in hits : i <= j
             IN  SubSeq(s, 1, first - 1) \o new
                    \o StrReplace(SubSeq(s, first + Len(old), Len(s)), old, new)

\* os.path.join(a, b) for a relative b; a path that is not a string raises
PathJoin(a, b) ==
    IF a = "" \/ SubSeq(a, Len(a), Len(a)) = "/" THEN a \o b ELSE a \o "/" \o b

RECURSIVE JoinSpace(_)
\* ' '.join(list)
JoinSpace(l) ==
    IF Len(l) = 0 THEN ""
    ELSE IF Len(l) = 1 THEN l[1]
    ELSE l[1] \o " " \o JoinSpace(Tail(l))

-----------------------------------------------------------------------------
(* Files *)

\* A file written by build_cmd: the generated parameter list
TextFile(lines) == [kind |-> "text", lines |-> lines, fitsref |-> FALSE, errmsg |-> << >>, rows |-> << >>]

\* An XML report as a wrapped tool leaves it.  kind "xml" is a readable
\* VOTable, kind "malformed" cannot be parsed.  fitsref: the report has a
\* line with an embedded "<fits" table reference; errmsg: the values of its
\* 'Error_Msg' params; rows: the rows of its 'Warnings' table.
XmlFile(kind, fitsref, errmsg, rows) ==
    [kind |-> kind, lines |-> << >>, fitsref |-> fitsref, errmsg |-> errmsg, rows |-> rows]

\* fs with the file at path p replaced by f
WriteFile(files, p, f) == [q \in DOMAIN files \cup {p} |-> IF q = p THEN f ELSE files[q]]

-----------------------------------------------------------------------------
(* Astromatic.__init__ and Astromatic.build_cmd *)

codes == [PSFEx |-> "psfex", SCAMP |-> "scamp", SExtractor |-> "sex", SWarp |-> "swarp"]

\* vars(self) after Astromatic(**api_kwargs): the named parameters take
\* their defaults when not passed, every extra keyword becomes an attribute.
\* default_config is the current state of the shared default dict.
AstromaticInit(api_kwargs, default_config) ==
    [a \in DOMAIN api_kwargs \cup {"code", "temp_path", "config", "config_file", "store_output"} |->
        IF a \in DOMAIN api_kwargs THEN api_kwargs[a]
        ELSE CASE a = "config" -> default_config
               [] a = "store_output" -> Bool(FALSE)
               [] OTHER -> None]

\* "Update kwargs with any missing variables"
BuildKwargs(self, kwargs) ==
    [a \in DOMAIN self \cup DOMAIN kwargs |-> IF a \in DOMAIN kwargs THEN kwargs[a] ELSE self[a]]

\* ParamStep in which a PARAMETERS_NAME already in config wins over the
\* inline params: nothing is written and the entry is kept
Mutant_ParamStepKeepsName(kw) ==
    LET ok(cfg, w, warned) == [exc |-> "none", config |-> cfg, writes |-> w, warned |-> warned]
        fail(e, warned) == [exc |-> e, config |-> kw.config, writes |-> << >>, warned |-> warned]
    IN  IF kw.code /= Str("SExtractor") THEN ok(kw.config, << >>, FALSE)
        ELSE IF HasKey(kw.config, "PARAMETERS_NAME") THEN ok(kw.config, << >>, "params" \in DOMAIN kw)
        ELSE IF "params" \in DOMAIN kw
        THEN IF kw.temp_path.t /= "str" THEN fail("TypeError", FALSE)
             ELSE LET param_name == PathJoin(kw.temp_path.s, "sex.param")
                      content == [i \in 1..Len(kw.params) |-> kw.params[i] \o "\n"]
                  IN  ok(SetKey(kw.config, "PARAMETERS_NAME", Str(param_name)),
                         << [path |-> param_name, file |-> TextFile(content)] >>, FALSE)
        ELSE fail("AstromaticError", FALSE)

\* The SExtractor parameter-file step of build_cmd.  exc is the exception
\* raised ("none" when the step completes); config is the state of the
\* config dict afterwards; writes are the files written.
ParamStep(kw) ==
    LET ok(cfg, w, warned) == [exc |-> "none", config |-> cfg, writes |-> w, warned |-> warned]
        fail(e, warned) == [exc |-> e, config |-> kw.config, writes |-> << >>, warned |-> warned]
    IN  IF kw.code /= Str("SExtractor") THEN ok(kw.config, << >>, FALSE)
        ELSE IF "params" \in DOMAIN kw
        THEN LET warned == HasKey(kw.config, "PARAMETERS_NAME") IN
             IF "temp_path" \notin DOMAIN kw THEN fail("AstromaticError", warned)
             ELSE IF kw.temp_path.t /= "str" THEN fail("TypeError", warned)
             ELSE LET param_name == PathJoin(kw.temp_path.s, "sex.param")
                      content == [i \in 1..Len(kw.params) |-> kw.params[i] \o "\n"]
                  IN  ok(SetKey(kw.config, "PARAMETERS_NAME", Str(param_name)),
                         << [path |-> param_name, file |-> TextFile(content)] >>, warned)
        ELSE IF ~HasKey(kw.config, "PARAMETERS_NAME") THEN fail("AstromaticError", FALSE)
        ELSE ok(kw.config, << >>, FALSE)

\* The command-line value of one config entry; a value that is neither a
\* bool nor a str cannot be concatenated to the command
ConfigVal(v) == IF v.t = "bool" THEN (IF v.b THEN "Y" ELSE "N") ELSE v.s

RECURSIVE ConfigFlags(_)
\* "Add on any user specified parameters"
ConfigFlags(cfg) ==
    IF Len(cfg) = 0 THEN ""
    ELSE " -" \o cfg[1].k \o " " \o ConfigVal(cfg[1].v) \o ConfigFlags(Tail(cfg))

\* build_cmd from "Get the correct command for the given code" on: kw0 is
\* kwargs after the update from vars(self), ps what the parameter step did
CmdStep(kw0, ps, filenames) ==
    LET kw == [kw0 EXCEPT !.config = ps.config]
        base == [exc |-> ps.exc, cmd |-> "", kwargs |-> kw, writes |-> ps.writes, warned |-> ps.warned]
    IN  IF ps.exc /= "none" THEN base
        ELSE IF "cmd" \notin DOMAIN kw /\ kw.code.s \notin DOMAIN codes
        THEN [base EXCEPT !.exc = "AstromaticError"]
        ELSE LET cmd0 == IF "cmd" \notin DOMAIN kw THEN codes[kw.code.s] ELSE kw.cmd.s
                 cmd1 == IF SubSeq(cmd0, Len(cmd0), Len(cmd0)) /= " " THEN cmd0 \o " " ELSE cmd0
                 cmd2 == cmd1 \o JoinSpace(filenames)
                 cmd3 == IF kw.config_file /= None THEN cmd2 \o " -c " \o kw.config_file.s ELSE cmd2
             IN  IF \E i \in 1..Len(kw.config) : kw.config[i].v.t \notin {"bool", "str"}
                 THEN [base EXCEPT !.exc = "TypeError"]
                 ELSE [base EXCEPT !.cmd = cmd3 \o ConfigFlags(kw.config)]

\* build_cmd once kwargs has been updated from vars(self)
BuildStep(kw0, filenames) == CmdStep(kw0, ParamStep(kw0), filenames)

\* build_cmd(filenames, **kwargs) on an instance whose vars() are self.
\* Returns the exception raised (or "none"), the command, the kwargs used
\* (with the config as left by the call) and the files written.
BuildCmd(self, filenames, kwargs) == BuildStep(BuildKwargs(self, kwargs), filenames)

-----------------------------------------------------------------------------
(* The wrapped tool, seen from the wrapper *)

RECURSIVE UpToSpace(_)
\* the leading part of s before its first space
UpToSpace(s) ==
    IF s = "" \/ SubSeq(s, 1, 1) = " " THEN "" ELSE SubSeq(s, 1, 1) \o UpToSpace(SubSeq(s, 2, Len(s)))

\* The value that follows the last ' -KEY ' on a command line (later flags
\* override earlier ones); "" when the flag is not given
CmdArg(cmd, key) ==
    LET flag == " -" \o key \o " "
        at == {i \in 1..(Len(cmd) - Len(flag) + 1) : SubSeq(cmd, i, i + Len(flag) - 1) = flag}
    IN  IF at = {} THEN ""
        ELSE LET i == CHOOSE j \in at : \A k \in at : k <= j
             IN  UpToSpace(SubSeq(cmd, i + Len(flag), Len(cmd)))

NoReport == XmlFile("none", FALSE, << >>, << >>)

\* The filesystem after the child process has exited: a tool told
\* `-WRITE_XML Y -XML_NAME p` leaves its report at p.  report is what it
\* managed to write (NoReport: it died before writing anything).
ToolRun(files, cmd, report) ==
    LET path == CmdArg(cmd, "XML_NAME")
    IN  IF report /= NoReport /\ path /= "" /\ CmdArg(cmd, "WRITE_XML") = "Y"
        THEN WriteFile(files, path, report)
        ELSE files

-----------------------------------------------------------------------------
(* Astromatic._run_cmd *)

\* astropy.io.votable.parse(path): the exception it raises, or "none"
ParseExc(files, path) ==
    IF path \notin DOMAIN files THEN "IOError"
    ELSE IF files[path].kind /= "xml" \/ files[path].fitsref THEN "ParseError"
    ELSE "none"

\* "This code removes the link to the FITS_LDAC file": the report rewritten
\* without its '<fits' lines
StripFits(file) == [file EXCEPT !.fitsref = FALSE]

\* FirstErrorLine without the `break`: the last matching line wins
Mutant_LastErrorLine(output) ==
    LET hits == {i \in 1..Len(output) : Contains(StrLower(output[i]), "error")}
    IN  IF hits = {} THEN << >>
        ELSE << output[CHOOSE i \in hits : \A j \in hits : j <= i] >>

\* The first captured line that contains 'error' in any letter case, as a
\* 0- or 1-element sequence
FirstErrorLine(output) ==
    LET hits == {i \in 1..Len(output) : Contains(StrLower(output[i]), "error")}
    IN  IF hits = {} THEN << >>
        ELSE << output[CHOOSE i \in hits : \A j \in hits : i <= j] >>

\* The record after the "Run code" part of _run_cmd in captured mode
CapturedResult(output) ==
    LET hit == FirstErrorLine(output)
        r0 == [status |-> "success", output |-> output]
    IN  IF hit = << >> THEN r0
        ELSE [status |-> "error", output |-> output, error_msg |-> hit[1]]

\* StreamedResult that reports a message for every failure, report or not
Mutant_StreamedAlwaysMsg(status, has_xml, errmsg) ==
    IF status > 0
    THEN [status |-> "error", error_msg |-> IF Len(errmsg) > 0 THEN errmsg[Len(errmsg)] ELSE "failed"]
    ELSE [status |-> "success"]

\* The record after the "Run code" part of _run_cmd in streamed mode, when
\* the report (if one is looked at) could be parsed.  errmsg holds the
\* values of the report's 'Error_Msg' params.
StreamedResult(status, has_xml, errmsg) ==
    IF status > 0
    THEN IF has_xml /\ Len(errmsg) > 0
         THEN [status |-> "error", error_msg |-> errmsg[Len(errmsg)]]
         ELSE [status |-> "error"]
    ELSE [status |-> "success"]

\* "Raise an Exception if appropriate"
ShouldRaise(result, raise_error) == result.status = "error" /\ raise_error

\* The message of the AstromaticError raised by _run_cmd
ErrorText(code, result) ==
    "Error in '" \o code \o "' execution"
        \o (IF "error_msg" \in DOMAIN result THEN ": " \o result.error_msg ELSE "")

\* The record with the 'warnings' table read from the report at path
WithWarnings(result, files, path) ==
    [k \in DOMAIN result \cup {"warnings"} |->
        IF k = "warnings" THEN [kind |-> "Table", rows |-> files[path].rows, filename |-> path]
        ELSE result[k]]

\* "Run code": files1 is the filesystem the child process left.  The value
\* holds the record, the exception raised by the report lookup of the
\* streamed branch ("none" if none), the XML files opened and the filesystem.
RunCode(store_output, xml_name, env, files1) ==
    LET looked == ~store_output /\ env.status > 0 /\ xml_name /= None
        exc1 == IF looked THEN ParseExc(files1, xml_name.s) ELSE "none"
    IN  [exc |-> exc1,
         result |-> IF store_output THEN CapturedResult(env.output)
                    ELSE StreamedResult(env.status, xml_name /= None,
                                        IF looked /\ exc1 = "none" THEN files1[xml_name.s].errmsg
                                        ELSE << >>),
         accesses |-> IF looked THEN << [path |-> xml_name.s, mode |-> "r"] >> ELSE << >>,
         files |-> files1]

\* The report path used by the "Log any warnings" part
FramePath(xml_name, frame) ==
    IF frame /= None THEN StrReplace(xml_name.s, ".xml", "-" \o frame.s \o ".xml") ELSE xml_name.s

\* parse(xml_name, invalid='mask', pedantic=False) and Table.read
ParseWarnings(path, s) ==
    LET exc3 == ParseExc(s.files, path)
    IN  [s EXCEPT !.exc = exc3,
                  !.accesses = Append(@, [path |-> path, mode |-> "r"]),
                  !.result = IF exc3 = "none" THEN WithWarnings(@, s.files, path) ELSE @]

\* The SExtractor rewrite of the report, then the parse
Normalise(code, path, s) ==
    IF code /= Str("SExtractor") THEN ParseWarnings(path, s)
    ELSE IF path \notin DOMAIN s.files
    THEN [s EXCEPT !.exc = "IOError", !.accesses = Append(@, [path |-> path, mode |-> "r"])]
    ELSE ParseWarnings(path,
            [s EXCEPT !.files = WriteFile(@, path, StripFits(@[path])),
                      !.accesses = @ \o << [path |-> path, mode |-> "r"], [path |-> path, mode |-> "w"] >>])

\* "Log any warnings generated by the astromatic code": s is the state
\* after "Run code"
LogWarnings(code, xml_name, frame, s) ==
    IF s.exc /= "none" \/ xml_name = None THEN s
    ELSE Normalise(code, FramePath(xml_name, frame), s)

\* The end of _run_cmd: raise or return.  The value describes the whole
\* call: exc is the exception that ends it ("none": it returns result), msg
\* the exception's message, statuses the final status if the call got to
\* one, cmds the commands executed, accesses the XML files opened, in order,
\* files the filesystem left, and events the child process (which the call
\* waits for) followed by the accesses.
Finish(code, this_cmd, raise_error, s) ==
    LET raised == s.exc = "none" /\ ShouldRaise(s.result, raise_error)
    IN  [exc |-> IF raised THEN "AstromaticError" ELSE s.exc,
         msg |-> IF raised THEN ErrorText(code.s, s.result) ELSE "",
         result |-> s.result,
         statuses |-> IF s.exc = "none" THEN << s.result.status >> ELSE << >>,
         cmds |-> << this_cmd >>,
         accesses |-> s.accesses,
         files |-> s.files,
         events |-> << [path |-> this_cmd, mode |-> "run"] >> \o s.accesses]

\* _run_cmd(this_cmd, store_output, xml_name, raise_error, frame) on an
\* instance whose vars() are self.  env is what the child process does:
\* its captured output lines, its exit status and the report it writes.
\* files0 is the filesystem when the call starts.
RunCmd(self, this_cmd, store_output, xml_name, raise_error, frame, env, files0) ==
    Finish(self.code, this_cmd, raise_error,
           LogWarnings(self.code, xml_name, frame,
                       RunCode(store_output, xml_name, env, ToolRun(files0, this_cmd, env.report))))

-----------------------------------------------------------------------------
(* Astromatic.run and Astromatic.run_frames *)

\* A call that ended with exception exc before any process was started
NotRun(exc, files) ==
    [exc |-> exc, msg |-> "", result |-> [k \in {} |-> ""], statuses |-> << >>, cmds |-> << >>,
     accesses |-> << >>, files |-> files, events |-> << >>]

\* build_cmd not (yet) called: nothing built, config untouched
NotBuilt(config) ==
    [exc |-> "none", cmd |-> "", kwargs |-> [config |-> config], writes |-> << >>, warned |-> FALSE]

\* What one call did, as the caller and the operating system see it: b is
\* what build_cmd did, r what the runs did, xml_name the report path handed
\* to _run_cmd
Outcome(b, r, xml_name) ==
    [exc |-> r.exc, msg |-> r.msg, result |-> r.result, statuses |-> r.statuses, cmds |-> r.cmds,
     accesses |-> r.accesses, files |-> r.files, events |-> r.events, built |-> b.cmd, config |-> b.kwargs.config,
     warned |-> b.warned, writes |-> b.writes, xml_name |-> xml_name]

RECURSIVE WriteAll(_, _)
\* the filesystem after the files in writes have been written
WriteAll(files, writes) ==
    IF Len(writes) = 0 THEN files
    ELSE WriteAll(WriteFile(files, writes[1].path, writes[1].file), Tail(writes))

\* run: the report path handed to _run_cmd
RunXmlName(config) ==
    IF HasKey(config, "WRITE_XML") /\ HasKey(config, "XML_NAME")
       /\ GetKey(config, "WRITE_XML") = Str("Y")
    THEN GetKey(config, "XML_NAME")
    ELSE None

\* run after build_cmd has returned or raised: b is what it did
RunBuilt(self, b, store_output, raise_error, env, files0) ==
    LET files1 == WriteAll(files0, b.writes)
        xml_name == RunXmlName(b.kwargs.config)
    IN  IF b.exc /= "none" THEN Outcome(b, NotRun(b.exc, files1), None)
        ELSE Outcome(b, RunCmd(self, b.cmd, store_output, xml_name, raise_error, None, env, files1),
                     xml_name)

\* run(filenames, store_output, raise_error, **kwargs)
Run(self, filenames, store_output, raise_error, kwargs, env, files0) ==
    RunBuilt(self, BuildCmd(self, filenames, kwargs), store_output, raise_error, env, files0)

\* run(filenames, **kwargs): store_output and raise_error take the defaults
\* of the signature
RunDefault(self, filenames, kwargs, env, files0) ==
    Run(self, filenames, FALSE, TRUE, kwargs, env, files0)

\* run_frames: the report path handed to _run_cmd for every frame
FramesXmlName(config) ==
    IF HasKey(config, "WRITE_XML") /\ Truthy(GetKey(config, "WRITE_XML"))
       /\ HasKey(config, "XML_NAME")
    THEN GetKey(config, "XML_NAME")
    ELSE None

RECURSIVE ReplaceAll(_, _, _)
\* "Convert all multi-extension files to filenames with the same frame specified"
ReplaceAll(cmd, filenames, frame_str) ==
    IF Len(filenames) = 0 THEN cmd
    ELSE ReplaceAll(StrReplace(cmd, filenames[1], filenames[1] \o frame_str), Tail(filenames), frame_str)

\* The command run_frames executes for one frame
FrameCmd(this_cmd, filenames, flag_img, weight_img, xml_name, frame) ==
    LET frame_str == "[" \o ToString(frame) \o "]"
        c1 == ReplaceAll(this_cmd, filenames, frame_str)
        c2 == IF flag_img /= None THEN StrReplace(c1, flag_img.s, flag_img.s \o frame_str) ELSE c1
        c3 == IF weight_img /= None THEN StrReplace(c2, weight_img.s, weight_img.s \o frame_str) ELSE c2
    IN  IF xml_name /= None
        THEN StrReplace(c3, xml_name.s, StrReplace(xml_name.s, ".xml", "-" \o ToString(frame) \o ".xml"))
        ELSE c3

NoTable == [kind |-> "None", rows |-> << >>, filename |-> ""]

\* warnings['frame'] = frame
TagFrame(table, frame) ==
    [table EXCEPT !.rows = [i \in 1..Len(table.rows) |-> [msg |-> table.rows[i].msg, frame |-> frame]]]

\* Combine that stacks the new frame's rows on top of the earlier ones
Mutant_CombineOnTop(all_warnings, result, frame) ==
    IF "warnings" \in DOMAIN result /\ Len(result.warnings.rows) > 0
    THEN IF all_warnings = NoTable THEN TagFrame(result.warnings, frame)
         ELSE [kind |-> "Table",
               rows |-> TagFrame(result.warnings, frame).rows \o all_warnings.rows,
               filename |-> result.warnings.filename]
    ELSE all_warnings

\* "Combine all warnings into a single table"
Combine(all_warnings, result, frame) ==
    IF "warnings" \in DOMAIN result /\ Len(result.warnings.rows) > 0
    THEN IF all_warnings = NoTable THEN TagFrame(result.warnings, frame)
         ELSE [kind |-> "Table",
               rows |-> all_warnings.rows \o TagFrame(result.warnings, frame).rows,
               filename |-> result.warnings.filename]
    ELSE all_warnings

\* The record run_frames returns once every frame has run
FramesResult(all_warnings) == [status |-> "success", warnings |-> all_warnings]

\* The loop state after one more frame: r is what _run_cmd did for it
Accumulate(acc, r, frame) ==
    [exc |-> r.exc, msg |-> r.msg, last |-> r.result,
     warnings |-> IF r.exc = "none" THEN Combine(acc.warnings, r.result, frame) ELSE acc.warnings,
     statuses |-> acc.statuses \o r.statuses,
     cmds |-> acc.cmds \o r.cmds,
     accesses |-> acc.accesses \o r.accesses,
     events |-> acc.events \o r.events,
     files |-> r.files]

\* The loop state before the first frame
NoFrames(files) ==
    [exc |-> "none", msg |-> "", last |-> [k \in {} |-> ""], warnings |-> NoTable, statuses |-> << >>,
     cmds |-> << >>, accesses |-> << >>, events |-> << >>, files |-> files]

RECURSIVE FrameLoop(_, _, _, _, _, _, _, _, _, _, _)
\* "For each frame, modify the command to include the frames and run the
\* code": the loop from frame number i on.  acc carries the warnings, the
\* frames' statuses, the commands, the accesses and the filesystem so far;
\* an exception raised by a frame's _run_cmd ends the loop.
FrameLoop(self, this_cmd, filenames, flag_img, weight_img, xml_name, frames, raise_error, envs, i, acc) ==
    IF acc.exc /= "none" \/ i > Len(frames)
    THEN [exc |-> acc.exc, msg |-> acc.msg,
          result |-> IF acc.exc /= "none" THEN acc.last ELSE FramesResult(acc.warnings),
          statuses |-> acc.statuses, cmds |-> acc.cmds, accesses |-> acc.accesses, files |-> acc.files,
          events |-> acc.events]
    ELSE FrameLoop(self, this_cmd, filenames, flag_img, weight_img, xml_name, frames, raise_error,
                   envs, i + 1,
                   Accumulate(acc,
                              RunCmd(self,
                                     FrameCmd(this_cmd, filenames, flag_img, weight_img, xml_name, frames[i]),
                                     FALSE, xml_name, raise_error, Str(ToString(frames[i])),
                                     envs[i], acc.files),
                              frames[i]))

\* run_frames after build_cmd has returned or raised: b is what it did
FramesBuilt(self, b, filenames, sex, config, frames, raise_error, envs, files0) ==
    LET flag_img == IF sex /\ HasKey(config, "FLAG_IMAGE") THEN GetKey(config, "FLAG_IMAGE") ELSE None
        weight_img == IF sex /\ HasKey(config, "WEIGHT_IMAGE") THEN GetKey(config, "WEIGHT_IMAGE") ELSE None
        xml_name == FramesXmlName(config)
        files1 == WriteAll(files0, b.writes)
    IN  IF b.exc /= "none" THEN Outcome(b, NotRun(b.exc, files1), xml_name)
        ELSE Outcome(b, FrameLoop(self, b.cmd, filenames, flag_img, weight_img, xml_name,
                                  frames, raise_error, envs, 1, NoFrames(files1)),
                     xml_name)

\* run_frames(filenames, code, frames, raise_error, **kwargs)
RunFrames(self, filenames, code_arg, frames, raise_error, kwargs, envs, files0) ==
    LET code == IF code_arg = None THEN self.code ELSE code_arg
        config == IF "config" \in DOMAIN kwargs THEN kwargs.config ELSE self.config
        kw == [a \in DOMAIN kwargs \cup {"code", "config"} |->
                 IF a = "code" THEN code ELSE IF a = "config" THEN config ELSE kwargs[a]]
    IN  IF code /= Str("SExtractor") /\ code /= Str("SWarp")
        THEN Outcome(NotBuilt(config), NotRun("AstromaticError", files0), None)
        ELSE FramesBuilt(self, BuildCmd(self, filenames, kw), filenames, code = Str("SExtractor"),
                         config, frames, raise_error, envs, files0)

-----------------------------------------------------------------------------
(* The convenience functions run_sex, run_scamp and run_psfex *)

\* `if key not in d: d[key] = value` on a keyword dict
SetDefault(d, key, value) == IF key \in DOMAIN d THEN d ELSE d @@ (key :> value)

\* `if key not in config: config[key] = value` on a config dict
ConfigDefault(config, key, value) == IF HasKey(config, key) THEN config ELSE SetKey(config, key, value)

\* The part the functions share: code, cmd, temp_path and config default
\* from the pipeline when api_kwargs does not have them
CommonKwargs(api_kwargs, pipeline, code) ==
    LET k1 == SetDefault(api_kwargs, "code", Str(code))
        k2 == IF "cmd" \notin DOMAIN k1 /\ code \in DOMAIN pipeline.build_paths
              THEN k1 @@ ("cmd" :> Str(pipeline.build_paths[code])) ELSE k1
        k3 == SetDefault(k2, "temp_path", Str(pipeline.paths.temp))
    IN  SetDefault(k3, "config", EmptyDict)

\* "if 'log' in pipeline.paths": the report is requested and named after the step
LogDefaults(config, pipeline, step_id, tool) ==
    IF "log" \in DOMAIN pipeline.paths
    THEN ConfigDefault(ConfigDefault(config, "WRITE_XML", Str("Y")), "XML_NAME",
                       Str(PathJoin(pipeline.paths.log, step_id \o "." \o tool \o ".log.xml")))
    ELSE config

\* api_kwargs as run_sex leaves it before it builds the instance
SexKwargs(api_kwargs, pipeline, step_id, files) ==
    LET k == CommonKwargs(api_kwargs, pipeline, "SExtractor")
        c1 == ConfigDefault(k.config, "CATALOG_NAME", Str(StrReplace(files.image, ".fits", ".cat")))
        c2 == IF "dqmask" \in DOMAIN files THEN ConfigDefault(c1, "FLAG_IMAGE", Str(files.dqmask)) ELSE c1
        c3 == IF "wtmap" \in DOMAIN files THEN ConfigDefault(c2, "WEIGHT_IMAGE", Str(files.wtmap)) ELSE c2
    IN  [k EXCEPT !.config = LogDefaults(c3, pipeline, step_id, "sex")]

\* api_kwargs as run_scamp leaves it before it builds the instance
ScampKwargs(api_kwargs, pipeline, step_id, save_catalog) ==
    LET k == CommonKwargs(api_kwargs, pipeline, "SCAMP")
        c1 == IF save_catalog /= None
              THEN SetKey(SetKey(k.config, "SAVE_REFCATALOG", Str("Y")), "REFOUT_CATPATH", save_catalog)
              ELSE k.config
    IN  [k EXCEPT !.config = LogDefaults(c1, pipeline, step_id, "scamp")]

\* api_kwargs as run_psfex leaves it before it builds the instance
PsfexKwargs(api_kwargs, pipeline, step_id) ==
    LET k == CommonKwargs(api_kwargs, pipeline, "PSFEx")
        c1 == ConfigDefault(k.config, "PSF_DIR", Str(pipeline.paths.temp))
    IN  [k EXCEPT !.config = LogDefaults(c1, pipeline, step_id, "psfex")]

\* run_sex(pipeline, step_id, files, api_kwargs, frames)
RunSex(api_kwargs, pipeline, step_id, files, frames, envs, files0) ==
    LET sex == AstromaticInit(SexKwargs(api_kwargs, pipeline, step_id, files), EmptyDict)
    IN  IF Len(frames) = 0
        THEN Run(sex, << files.image >>, FALSE, TRUE, EmptyKwargs, envs[1], files0)
        ELSE RunFrames(sex, << files.image >>, Str("SExtractor"), frames, FALSE, EmptyKwargs, envs, files0)

\* run_scamp(pipeline, step_id, catalogs, api_kwargs, save_catalog)
RunScamp(api_kwargs, pipeline, step_id, catalogs, save_catalog, env, files0) ==
    Run(AstromaticInit(ScampKwargs(api_kwargs, pipeline, step_id, save_catalog), EmptyDict),
        catalogs, FALSE, TRUE, EmptyKwargs, env, files0)

\* run_psfex(pipeline, step_id, catalogs, api_kwargs)
RunPsfex(api_kwargs, pipeline, step_id, catalogs, env, files0) ==
    Run(AstromaticInit(PsfexKwargs(api_kwargs, pipeline, step_id), EmptyDict),
        catalogs, FALSE, TRUE, EmptyKwargs, env, files0)

-----------------------------------------------------------------------------
(* Inputs *)

\* Lines a wrapped tool prints
Lines == {"ok\n", "Error: bad pixel\n", "> SCAMP ERROR\n"}

\* Captured outputs: every sequence of at most MaxOutputLines lines
Outputs == UNION {[1..n -> Lines] : n \in 0..MaxOutputLines}

\* Exit statuses: killed by a signal, clean exit, failure
Statuses == {-9, 0, 1}

\* Reports a tool can leave behind
Reports ==
    {NoReport,
     XmlFile("malformed", FALSE, << >>, << >>),
     XmlFile("xml", FALSE, << >>, << >>),
     XmlFile("xml", TRUE, << "bad header" >>, << [msg |-> "w1"] >>),
     XmlFile("xml", FALSE, << "bad header" >>, << [msg |-> "w1"], [msg |-> "w2"] >>)}

\* the config asks the tool for a report: it names XML_NAME and its
\* WRITE_XML goes on the command line as 'Y'
ReportRequested(config) ==
    /\ HasKey(config, "XML_NAME")
    /\ HasKey(config, "WRITE_XML")
    /\ GetKey(config, "WRITE_XML") \in {Str("Y"), Bool(TRUE)}

\* The child process of a call that starts none
NoEnv == [output |-> << >>, status |-> 0, report |-> NoReport]

\* What the child process of one call can do.  Its output reaches the
\* wrapper in captured mode only; it writes a report only when given a path.
Envs(captured, with_xml) ==
    [output : IF captured THEN Outputs ELSE {<< >>},
     status : IF captured THEN {0, 1} ELSE Statuses,
     report : IF with_xml THEN Reports ELSE {NoReport}]

\* What the child process of one frame can do
FrameEnvs(with_xml) ==
    [output : {<< >>},
     status : {0, 1},
     report : IF with_xml
              THEN {NoReport, XmlFile("xml", FALSE, << >>, << >>),
                    XmlFile("xml", TRUE, << "bad header" >>, << [msg |-> "w1"] >>)}
              ELSE {NoReport}]

XmlPath == "l.xml"

\* A report left at XmlPath by an earlier run
StaleReport == XmlFile("xml", FALSE, << "old" >>, << [msg |-> "stale"] >>)

\* Filesystems a call can start from
StartFiles == {<< >>, [p \in {XmlPath} |-> StaleReport]}

\* Config dicts: every choice of WRITE_XML, XML_NAME and PARAMETERS_NAME
OptEntry(k, vals) == {<< >>} \cup {<< [k |-> k, v |-> v] >> : v \in vals}

XmlConfigs ==
    {w \o x : w \in OptEntry("WRITE_XML", {Str("Y"), Str("N"), Bool(TRUE), Bool(FALSE)}),
              x \in OptEntry("XML_NAME", {Str(XmlPath)})}

Configs == {p \o c : p \in OptEntry("PARAMETERS_NAME", {Str("d.param")}), c \in XmlConfigs}

\* Keyword arguments of Astromatic(...) besides code and config
ExtraKwargs ==
    {t @@ p : t \in {EmptyKwargs, [temp_path |-> Str("tmp")]},
              p \in {EmptyKwargs, [params |-> << "X", "Y", "Z" >>]}}

\* Astromatic(code, config=config, **extra)
NewInstance(code, config, extra) ==
    AstromaticInit([code |-> Str(code), config |-> config] @@ extra, EmptyDict)

Filenames == << "a.fits" >>

\* Config dicts handed to build_cmd: the above, with or without a detection
\* threshold given as a number or as a string
BuildConfigs == {c \o n : c \in Configs, n \in OptEntry("DETECT_THRESH", {Num(5), Str("1.5")})}

\* Keyword arguments of Astromatic(...) for build_cmd: with or without a config file
BuildExtras == {e @@ f : e \in ExtraKwargs, f \in {EmptyKwargs, [config_file |-> Str("d.sex")]}}

\* Filename lists handed to build_cmd
BuildFilenames == {Filenames, << "a.fits", "b.fits" >>}

\* Inputs of run_frames: the filename list and the FLAG_IMAGE entry of the
\* config (if any).  A list may repeat a file, one name may contain another,
\* and the flag image may be named after the image.
FrameInputs ==
    {[filenames |-> Filenames, flag |-> << >>],
     [filenames |-> Filenames, flag |-> << [k |-> "FLAG_IMAGE", v |-> Str("f.fits")] >>],
     [filenames |-> Filenames, flag |-> << [k |-> "FLAG_IMAGE", v |-> Str("a.fits.dq")] >>],
     [filenames |-> << "a.fits", "a.fits" >>, flag |-> << >>],
     [filenames |-> << "a.fits", "xa.fits" >>, flag |-> << >>]}

\* Frame lists: every non-empty list of at most MaxFrames frames
FrameLists == UNION {[1..n -> {1, 2}] : n \in 1..MaxFrames}

-----------------------------------------------------------------------------
(* State machine *)

Idle == [op |-> "none"]

Init ==
    /\ fs \in StartFiles
    /\ init_config = EmptyDict
    /\ scamp_api_kwargs = EmptyKwargs
    /\ psfex_api_kwargs = EmptyKwargs
    /\ sex_api_kwargs = EmptyKwargs
    /\ call = Idle
    /\ out = Outcome(NotBuilt(EmptyDict), NotRun("none", << >>), None)
    /\ ncalls = 0

\* The wrapper runs one call at a time; what earlier calls left behind is
\* the filesystem the next one starts from
Ready == call = Idle

Defaults == <<init_config, scamp_api_kwargs, psfex_api_kwargs, sex_api_kwargs>>

\* A caller invokes _run_cmd on an instance, with a command that names the
\* report exactly when xml_name is passed
CallRunCmd ==
    /\ Ready
    /\ \E code \in {"SExtractor", "SCAMP"}, store_output \in BOOLEAN, raise_error \in BOOLEAN,
          xml_name \in {None, Str(XmlPath)} :
         \E env \in Envs(store_output, xml_name /= None) :
           LET this_cmd == codes[code] \o " a.fits"
                             \o (IF xml_name /= None THEN " -WRITE_XML Y -XML_NAME " \o xml_name.s ELSE "")
           IN \E r \in {RunCmd(NewInstance(code, EmptyDict, EmptyKwargs), this_cmd, store_output,
                               xml_name, raise_error, None, env, fs)} :
               /\ call' = [op |-> "_run_cmd", code |-> code, store_output |-> store_output,
                           raise_error |-> raise_error, envs |-> << env >>, files |-> fs]
               /\ out' = Outcome([NotBuilt(EmptyDict) EXCEPT !.cmd = this_cmd], r, xml_name)
               /\ fs' = r.files
               /\ ncalls' = ncalls + 1
               /\ UNCHANGED Defaults

\* A caller builds an instance with its own config and calls build_cmd
CallBuildCmd ==
    /\ Ready
    /\ \E code \in {"SExtractor", "SCAMP", "Eye"}, config \in BuildConfigs, extra \in BuildExtras,
          filenames \in BuildFilenames :
         \E b \in {BuildCmd(NewInstance(code, config, extra), filenames, EmptyKwargs)} :
           /\ call' = [op |-> "build_cmd", code |-> code, config |-> config, extra |-> extra,
                       filenames |-> filenames, files |-> fs]
           /\ out' = Outcome(b, NotRun(b.exc, WriteAll(fs, b.writes)), None)
           /\ fs' = WriteAll(fs, b.writes)
           /\ ncalls' = ncalls + 1
           /\ UNCHANGED Defaults

\* A caller builds an instance with its own config and calls run (params
\* and temp_path are given to SExtractor instances only)
CallRun ==
    /\ Ready
    /\ \E code \in {"SExtractor", "SCAMP"}, config \in Configs, store_output \in BOOLEAN,
          raise_error \in BOOLEAN :
       \E extra \in IF code = "SExtractor" THEN ExtraKwargs ELSE {EmptyKwargs} :
         \E env \in IF BuildCmd(NewInstance(code, config, extra), Filenames, EmptyKwargs).exc = "none"
                    THEN Envs(store_output, ReportRequested(config)) ELSE {NoEnv} :
           \E o \in {Run(NewInstance(code, config, extra), Filenames, store_output, raise_error,
                         EmptyKwargs, env, fs)} :
             /\ call' = [op |-> "run", code |-> code, config |-> config, extra |-> extra,
                         store_output |-> store_output, raise_error |-> raise_error,
                         envs |-> << env >>, files |-> fs]
             /\ out' = o
             /\ fs' = o.files
             /\ ncalls' = ncalls + 1
             /\ UNCHANGED Defaults

\* A caller builds an instance with its own config and calls run_frames
\* (the filename and flag-image variants are tried on single-frame lists)
CallRunFrames ==
    /\ Ready
    /\ \E code \in {"SExtractor", "SWarp", "SCAMP"}, config \in XmlConfigs, frames \in FrameLists,
          raise_error \in BOOLEAN :
       \E inp \in IF Len(frames) = 1 THEN FrameInputs
                  ELSE {[filenames |-> Filenames, flag |-> << >>]} :
         \E envs \in [1..Len(frames) -> IF code = "SCAMP" THEN {NoEnv}
                                         ELSE FrameEnvs(ReportRequested(config))] :
           LET cfg == << [k |-> "PARAMETERS_NAME", v |-> Str("d.param")] >> \o inp.flag \o config
           IN \E o \in {RunFrames(NewInstance(code, cfg, EmptyKwargs), inp.filenames, None, frames,
                                  raise_error, EmptyKwargs, envs, fs)} :
               /\ call' = [op |-> "run_frames", code |-> code, config |-> cfg, frames |-> frames,
                           filenames |-> inp.filenames,
                           store_output |-> FALSE, raise_error |-> raise_error, envs |-> envs,
                           files |-> fs]
               /\ out' = o
               /\ fs' = o.files
               /\ ncalls' = ncalls + 1
               /\ UNCHANGED Defaults

\* A caller builds an instance with a store_output flag and calls run
\* without a store_output argument
CallRunDefault ==
    /\ Ready
    /\ \E flag \in BOOLEAN, env \in [output : Outputs, status : Statuses, report : {NoReport}] :
         \E o \in {RunDefault(NewInstance("SCAMP", EmptyDict, [store_output |-> Bool(flag)]),
                                Filenames, EmptyKwargs, env, fs)} :
           /\ call' = [op |-> "run", code |-> "SCAMP", config |-> EmptyDict,
                       extra |-> [store_output |-> Bool(flag)], store_output |-> FALSE,
                       raise_error |-> TRUE, envs |-> << env >>, files |-> fs]
           /\ out' = o
           /\ fs' = o.files
           /\ ncalls' = ncalls + 1
           /\ UNCHANGED Defaults

Next == CallRunCmd \/ CallBuildCmd \/ CallRun \/ CallRunFrames \/ CallRunDefault

Spec == Init /\ [][Next]_vars

-----------------------------------------------------------------------------
(* Calls that leave api_kwargs and config at their defaults *)

\* Pipeline contexts: with and without a log directory and built executables
Pipelines ==
    {[paths |-> [temp |-> "tmp", log |-> "log"], build_paths |-> [SCAMP |-> "/opt/scamp"]],
     [paths |-> [temp |-> "t2"], build_paths |-> EmptyKwargs]}

StepIds == {"s1", "s2"}

\* What the child process does in these calls
FuncEnvs ==
    {[output |-> << >>, status |-> 0, report |-> XmlFile("xml", FALSE, << >>, << [msg |-> "w1"] >>)],
     [output |-> << >>, status |-> 1, report |-> NoReport]}

MoreCalls == ncalls < MaxCalls

\* run_sex(pipeline, step_id, files) with api_kwargs left at its default:
\* the function's own dict object, which the call updates in place
CallRunSex ==
    /\ MoreCalls
    /\ \E pipeline \in Pipelines, step_id \in StepIds,
          files \in {[image |-> "a.fits"], [image |-> "b.fits", dqmask |-> "b.dq.fits"]},
          env \in FuncEnvs :
         \E o \in {RunSex(sex_api_kwargs, pipeline, step_id, files, << >>, << env >>, fs)} :
           /\ call' = [op |-> "run_sex", pipeline |-> pipeline, step_id |-> step_id, files |-> files,
                       frames |-> << >>, envs |-> << env >>]
           /\ out' = o
           /\ sex_api_kwargs' = [SexKwargs(sex_api_kwargs, pipeline, step_id, files) EXCEPT !.config = o.config]
           /\ fs' = o.files
           /\ ncalls' = ncalls + 1
           /\ UNCHANGED <<init_config, scamp_api_kwargs, psfex_api_kwargs>>

\* run_scamp(pipeline, step_id, catalogs, save_catalog=...) with api_kwargs
\* left at its default
CallRunScamp ==
    /\ MoreCalls
    /\ \E pipeline \in Pipelines, step_id \in StepIds, save_catalog \in {None, Str("ref.cat")},
          env \in FuncEnvs :
         \E o \in {RunScamp(scamp_api_kwargs, pipeline, step_id, << "a.cat" >>, save_catalog, env, fs)} :
           /\ call' = [op |-> "run_scamp", pipeline |-> pipeline, step_id |-> step_id,
                       save_catalog |-> save_catalog, envs |-> << env >>]
           /\ out' = o
           /\ scamp_api_kwargs' = [ScampKwargs(scamp_api_kwargs, pipeline, step_id, save_catalog)
                                      EXCEPT !.config = o.config]
           /\ fs' = o.files
           /\ ncalls' = ncalls + 1
           /\ UNCHANGED <<init_config, sex_api_kwargs, psfex_api_kwargs>>

\* run_psfex(pipeline, step_id, catalogs) with api_kwargs left at its default
CallRunPsfex ==
    /\ MoreCalls
    /\ \E pipeline \in Pipelines, step_id \in StepIds, env \in FuncEnvs :
         \E o \in {RunPsfex(psfex_api_kwargs, pipeline, step_id, << "a.cat" >>, env, fs)} :
           /\ call' = [op |-> "run_psfex", pipeline |-> pipeline, step_id |-> step_id,
                       envs |-> << env >>]
           /\ out' = o
           /\ psfex_api_kwargs' = [PsfexKwargs(psfex_api_kwargs, pipeline, step_id) EXCEPT !.config = o.config]
           /\ fs' = o.files
           /\ ncalls' = ncalls + 1
           /\ UNCHANGED <<init_config, sex_api_kwargs, scamp_api_kwargs>>

\* Astromatic(code, **extra).build_cmd(filenames) with config left at its
\* default: the dict object of __init__, which build_cmd updates in place
CallAstromatic ==
    /\ MoreCalls
    /\ \E code \in {"SExtractor", "SCAMP"}, extra \in ExtraKwargs :
         \E b \in {BuildCmd(AstromaticInit([code |-> Str(code)] @@ extra, init_config),
                            Filenames, EmptyKwargs)} :
           /\ call' = [op |-> "Astromatic", code |-> code, extra |-> extra]
           /\ out' = Outcome(b, NotRun(b.exc, WriteAll(fs, b.writes)), None)
           /\ init_config' = b.kwargs.config
           /\ fs' = WriteAll(fs, b.writes)
           /\ ncalls' = ncalls + 1
           /\ UNCHANGED <<sex_api_kwargs, scamp_api_kwargs, psfex_api_kwargs>>

NextFuncs == CallRunSex \/ CallRunScamp \/ CallRunPsfex \/ CallAstromatic

SpecFuncs == Init /\ [][NextFuncs]_vars

\* What the last call would have done as the first call of the process
FirstCall ==
    CASE call.op = "run_sex" ->
            RunSex(EmptyKwargs, call.pipeline, call.step_id, call.files, call.frames, call.envs, << >>)
      [] call.op = "run_scamp" ->
            RunScamp(EmptyKwargs, call.pipeline, call.step_id, << "a.cat" >>, call.save_catalog,
                     call.envs[1], << >>)
      [] call.op = "run_psfex" ->
            RunPsfex(EmptyKwargs, call.pipeline, call.step_id, << "a.cat" >>, call.envs[1], << >>)
      [] call.op = "Astromatic" ->
            Outcome(BuildCmd(AstromaticInit([code |-> Str(call.code)] @@ call.extra, EmptyDict),
                             Filenames, EmptyKwargs),
                    NotRun("none", << >>), None)

\* C2: with api_kwargs and config left at their defaults, the command a
\* call builds is the one the same call would build as the first call of
\* the process.
C2_NoStateSharedAcrossCalls ==
    call.op \in {"run_sex", "run_scamp", "run_psfex", "Astromatic"}
        => out.built = FirstCall.built

-----------------------------------------------------------------------------
(* Properties *)

\* the last call started a child process through run or _run_cmd
RanOne == call.op \in {"_run_cmd", "run"} /\ Len(out.cmds) = 1

\* _run_cmd got to its end: it returned its record or raised on its status
Finished == out.exc \in {"none", "AstromaticError"}

\* line contains the word 'error' in some letter case
HasErrorWord(line) == \E i \in 1..(Len(line) - 4) : StrLower(SubSeq(line, i, i + 4)) = "error"

\* C3: in streamed mode the status is 'success' exactly when the child's
\* exit code is 0 (every nonzero code, negative ones included, gives
\* 'error'), and the record has no 'output' field.
C3_StreamedStatusFromExitCode ==
    (RanOne /\ ~call.store_output /\ Finished)
        => /\ (out.result.status = "success") <=> (call.envs[1].status = 0)
           /\ (out.result.status = "error") <=> (call.envs[1].status /= 0)
           /\ "output" \notin DOMAIN out.result

\* C4: in captured mode the status is 'error' exactly when some captured
\* line contains 'error' in any letter case; error_msg is then the first
\* such line, otherwise there is no error_msg and the status is 'success';
\* 'output' holds all captured lines either way, whatever the exit code.
C4_CapturedStatusFromOutput ==
    (RanOne /\ call.store_output)
        => LET output == call.envs[1].output
               hits == {i \in 1..Len(output) : HasErrorWord(output[i])}
           IN  /\ out.result.output = output
               /\ (out.result.status = "error") <=> (hits /= {})
               /\ (out.result.status = "success") <=> (hits = {})
               /\ hits = {} => "error_msg" \notin DOMAIN out.result
               /\ hits /= {} =>
                     /\ "error_msg" \in DOMAIN out.result
                     /\ \E i \in hits : /\ \A j \in hits : i <= j
                                        /\ out.result.error_msg = output[i]

\* a captured run that exited with code 0 and printed two different lines
\* with 'error' in them: the record is an error with the first as message
C4_Witness ==
    /\ RanOne /\ call.store_output
    /\ call.envs[1].status = 0
    /\ Len(call.envs[1].output) = 2
    /\ HasErrorWord(call.envs[1].output[1]) /\ HasErrorWord(call.envs[1].output[2])
    /\ call.envs[1].output[1] /= call.envs[1].output[2]
    /\ out.result.status = "error"
    /\ out.result.error_msg = call.envs[1].output[1]

\* C5: a returned record with status 'success' has no error_msg, and a
\* returned record has error_msg only with status 'error' and when a
\* captured line contained 'error' or a report path was at hand.
C5_ErrorMsgOnlyWithSource ==
    (call.op \in {"_run_cmd", "run", "run_frames"} /\ out.exc = "none" /\ Len(out.cmds) > 0)
        => /\ out.result.status = "success" => "error_msg" \notin DOMAIN out.result
           /\ "error_msg" \in DOMAIN out.result =>
                 /\ out.result.status = "error"
                 /\ \/ /\ call.store_output
                       /\ \E i \in 1..Len(call.envs[1].output) : HasErrorWord(call.envs[1].output[i])
                    \/ out.xml_name /= None

\* a streamed run that failed and returned a record whose message was read
\* from the report
C5_Witness ==
    /\ call.op \in {"_run_cmd", "run"} /\ out.exc = "none" /\ Len(out.cmds) = 1
    /\ ~call.store_output
    /\ out.result.status = "error"
    /\ "error_msg" \in DOMAIN out.result
    /\ out.xml_name /= None

\* the status _run_cmd has set in its record when the call ends
FinalStatus == out.result.status

\* C6: run/_run_cmd raises AstromaticError when the final status is 'error'
\* and raise_error is set, with a message that names the tool and carries
\* error_msg when there is one; in every other case the call raises nothing
\* and returns the record.
C6_RaiseOnlyOnErrorWhenAsked ==
    RanOne
        => LET failed == FinalStatus = "error" /\ call.raise_error
           IN  /\ failed => /\ out.exc = "AstromaticError"
                            /\ Contains(out.msg, "'" \o call.code \o "'")
                            /\ "error_msg" \in DOMAIN out.result
                                  => Contains(out.msg, out.result.error_msg)
               /\ ~failed => out.exc = "none"

\* C7: a report that cannot be read or parsed never makes the call fail:
\* no I/O or parse exception reaches the caller.
C7_ParseFailureNonFatal ==
    call.op \in {"_run_cmd", "run"} => out.exc \notin {"IOError", "ParseError"}

\* C1: run_frames with raise_error=False returns status 'success' exactly
\* when no frame's run was flagged as error, and 'error' otherwise.
C1_FramesStatusAggregates ==
    (call.op = "run_frames" /\ ~call.raise_error /\ out.exc = "none" /\ Len(out.cmds) > 0)
        => /\ (out.result.status = "success")
                 <=> (\A i \in 1..Len(out.statuses) : out.statuses[i] /= "error")
           /\ (\E i \in 1..Len(out.statuses) : out.statuses[i] = "error")
                 => out.result.status = "error"

\* C8: run and run_frames read (and rewrite) a report after the process
\* exactly when the configuration requested one.
C8_ReportParsedIffRequested ==
    (call.op \in {"run", "run_frames"} /\ Len(out.cmds) > 0)
        => /\ (out.accesses /= << >>) <=> ReportRequested(call.config)
           /\ (out.xml_name /= None) <=> ReportRequested(call.config)

\* every report the call was handed could be parsed and had no warning rows
AllReportsEmpty ==
    /\ out.xml_name /= None
    /\ out.exc = "none"
    /\ \A i \in 1..Len(out.accesses) :
          /\ out.accesses[i].path \in DOMAIN out.files
          /\ out.files[out.accesses[i].path].rows = << >>

\* C9: when the requested report(s) parse and hold no 'Warnings' rows, the
\* returned record has a 'warnings' field that is an empty table.
C9_EmptyWarningsTable ==
    (call.op \in {"run", "run_frames"} /\ Len(out.cmds) > 0 /\ AllReportsEmpty)
        => /\ "warnings" \in DOMAIN out.result
           /\ out.result.warnings.kind = "Table"
           /\ out.result.warnings.rows = << >>

\* C10: SExtractor with inline params and no temp_path: build_cmd raises
\* AstromaticError, writes no file and no process is started.
C10_NoTempPathIsConfigError ==
    (call.op \in {"build_cmd", "run"} /\ call.code = "SExtractor"
        /\ "params" \in DOMAIN call.extra /\ "temp_path" \notin DOMAIN call.extra)
        => /\ out.exc = "AstromaticError"
           /\ out.writes = << >>
           /\ out.files = call.files
           /\ out.cmds = << >>


\* the last call went through build_cmd on an instance made by the caller
Built == call.op \in {"build_cmd", "run"}

\* the call ended in build_cmd's AstromaticError: it raised before any
\* process was started
ConfigError == out.exc = "AstromaticError" /\ out.cmds = << >>

\* C11: for SExtractor, inline params with a temp directory T are written
\* to T/sex.param, one entry per line in order, and PARAMETERS_NAME is set
\* to that path even when it was already supplied (with a warning only);
\* with only PARAMETERS_NAME nothing is written and the value is kept; with
\* neither build_cmd raises AstromaticError and writes nothing.  For any
\* other tool no parameter file is written.
C11_ParameterSource ==
    Built =>
        LET inline == "params" \in DOMAIN call.extra
            named == HasKey(call.config, "PARAMETERS_NAME")
            target == call.extra.temp_path.s \o "/sex.param"
        IN  /\ (call.code = "SExtractor" /\ inline /\ "temp_path" \in DOMAIN call.extra) =>
                  /\ Len(out.writes) = 1
                  /\ out.writes[1].path = target
                  /\ Len(out.writes[1].file.lines) = Len(call.extra.params)
                  /\ \A i \in 1..Len(call.extra.params) :
                        out.writes[1].file.lines[i] = call.extra.params[i] \o "\n"
                  /\ target \in DOMAIN out.files /\ out.files[target] = out.writes[1].file
                  /\ GetKey(out.config, "PARAMETERS_NAME") = Str(target)
                  /\ out.warned = named
                  /\ ~ConfigError
            /\ (call.code = "SExtractor" /\ ~inline /\ named) =>
                  /\ out.writes = << >>
                  /\ out.config = call.config
                  /\ ~ConfigError
            /\ (call.code = "SExtractor" /\ ~inline /\ ~named) =>
                  /\ ConfigError
                  /\ out.writes = << >>
                  /\ out.files = call.files
                  /\ out.cmds = << >>
            /\ call.code /= "SExtractor" => out.writes = << >>

\* build_cmd for SExtractor given inline params, a temp directory and a
\* PARAMETERS_NAME: the file is written and the inline list has won
C11_Witness ==
    /\ Built /\ call.code = "SExtractor"
    /\ "params" \in DOMAIN call.extra /\ "temp_path" \in DOMAIN call.extra
    /\ HasKey(call.config, "PARAMETERS_NAME")
    /\ GetKey(call.config, "PARAMETERS_NAME") = Str("d.param")
    /\ out.warned
    /\ Len(out.writes) = 1
    /\ GetKey(out.config, "PARAMETERS_NAME") = Str("tmp/sex.param")


RECURSIVE FlagTokens(_)
\* the per-key part of a command line as the interface describes it: one
\* ' -KEY value' per entry, in order, a bool as Y or N and any other value
\* in its string form
FlagTokens(cfg) ==
    IF Len(cfg) = 0 THEN ""
    ELSE " -" \o cfg[1].k \o " "
            \o (IF cfg[1].v.t = "bool" THEN (IF cfg[1].v.b THEN "Y" ELSE "N") ELSE cfg[1].v.s)
            \o FlagTokens(Tail(cfg))

\* build_cmd was called with a known code and a usable parameter source
Buildable ==
    /\ call.op = "build_cmd"
    /\ call.code \in DOMAIN codes
    /\ call.code = "SExtractor" =>
          IF "params" \in DOMAIN call.extra THEN "temp_path" \in DOMAIN call.extra
          ELSE HasKey(call.config, "PARAMETERS_NAME")

\* C12: build_cmd returns '<executable> <files> [-c <config_file>]' followed
\* by one ' -KEY value' per entry of the config mapping, in insertion order,
\* with bools as Y/N and every other value (string or number) in its string
\* form.
C12_CommandForm ==
    Buildable =>
        /\ out.exc = "none"
        /\ out.built = codes[call.code]
                          \o (IF Len(call.filenames) = 2
                              THEN " " \o call.filenames[1] \o " " \o call.filenames[2]
                              ELSE " " \o call.filenames[1])
                          \o (IF "config_file" \in DOMAIN call.extra
                              THEN " -c " \o call.extra.config_file.s ELSE "")
                          \o FlagTokens(out.config)


\* f as a frame selector
Selector(f) == "[" \o ToString(f) \o "]"

RECURSIVE FramedFiles(_, _)
\* the filename tokens of a command, each with the selector of frame f
FramedFiles(filenames, f) ==
    IF Len(filenames) = 0 THEN ""
    ELSE " " \o filenames[1] \o Selector(f) \o FramedFiles(Tail(filenames), f)

RECURSIVE FramedFlags(_, _, _, _)
\* the per-key tokens of frame f's command: the flag and weight images of
\* SExtractor carry the selector, the report path (when one is looked for)
\* its frame suffix, every other token is that of the base command
FramedFlags(cfg, f, sex, with_xml) ==
    IF Len(cfg) = 0 THEN ""
    ELSE " -" \o cfg[1].k \o " "
            \o (IF sex /\ cfg[1].k \in {"FLAG_IMAGE", "WEIGHT_IMAGE"} THEN cfg[1].v.s \o Selector(f)
                ELSE IF with_xml /\ cfg[1].k = "XML_NAME"
                     THEN StrReplace(cfg[1].v.s, ".xml", "-" \o ToString(f) \o ".xml")
                ELSE IF cfg[1].v.t = "bool" THEN (IF cfg[1].v.b THEN "Y" ELSE "N")
                ELSE cfg[1].v.s)
            \o FramedFlags(Tail(cfg), f, sex, with_xml)

\* C13: the command run_frames executes for frame f is the base command in
\* which every input filename token (and for SExtractor the FLAG_IMAGE and
\* WEIGHT_IMAGE values) carries '[f]' exactly once, and nothing else is
\* altered apart from the report path; also when filenames repeat or
\* contain one another.
C13_FrameSelectorOncePerFile ==
    call.op = "run_frames" =>
        \A k \in 1..Len(out.cmds) :
            out.cmds[k] = codes[call.code]
                             \o FramedFiles(call.filenames, call.frames[k])
                             \o FramedFlags(out.config, call.frames[k], call.code = "SExtractor",
                                            out.xml_name /= None)


\* the positions of the child processes in the events of the last call
RunEvents == {i \in 1..Len(out.events) : out.events[i].mode = "run"}

\* the position of the k-th child process
RunEvent(k) == CHOOSE i \in RunEvents : Cardinality({j \in RunEvents : j <= i}) = k

RECURSIVE FrameRows(_)
\* the warning rows of the reports written by the first k frames' processes,
\* each tagged with its frame, in frame-processing order
FrameRows(k) ==
    IF k = 0 THEN << >>
    ELSE FrameRows(k - 1)
            \o [i \in 1..Len(call.envs[k].report.rows) |->
                  [msg |-> call.envs[k].report.rows[i].msg, frame |-> call.frames[k]]]

C15_InstanceStoreOutput ==
    (call.op = "run" /\ "store_output" \in DOMAIN call.extra /\ Len(out.cmds) = 1)
        => (("output" \in DOMAIN out.result) <=> (call.extra.store_output = Bool(TRUE)))


\* the frame being processed at position i of the events: that of the last
\* child process started at or before i
FrameAt(i) == call.frames[Cardinality({j \in RunEvents : j <= i})]

\* C16: every report access run_frames makes while processing frame f (the
\* error-message lookup, the SExtractor rewrite, the warnings parse) is to
\* the frame-suffixed path put in frame f's command; the unsuffixed
\* XML_NAME and other frames' reports are never opened.
C16_FrameReportPaths ==
    (call.op = "run_frames" /\ out.xml_name /= None) =>
        \A i \in 1..Len(out.events) :
            out.events[i].mode /= "run" =>
                /\ out.events[i].path
                      = StrReplace(out.xml_name.s, ".xml", "-" \o ToString(FrameAt(i)) \o ".xml")
                /\ out.events[i].path /= out.xml_name.s

====
